---------------------------- MODULE Spec2Model ----------------------------
(***************************************************************************)
(* A model of the CTI dashboard: the reputation cache (storage/cache.py),  *)
(* the zero-shot classifier wrapper (intelligence/classifier.py), the       *)
(* severity deriver and the /api/analyze pipeline (app.py), the lazily      *)
(* created singletons (storage/mongo_client.py, classifier.py,              *)
(* topic_detector.py) and the topic snapshot run (topic_detector.py).       *)
(*                                                                         *)
(* Conventions.                                                            *)
(*  - A Python dict is a function whose DOMAIN is its set of keys; the      *)
(*    empty dict is the function with the empty domain.                     *)
(*  - A string that the code inspects is a sequence of tokens: " " is a     *)
(*    blank, every other token is a piece of text without blanks.           *)
(*  - A score is an integer number of 1/100000: 0.50 is 50000.              *)
(*  - Time is in whole seconds since the process started.                   *)
(***************************************************************************)
EXTENDS Integers, Sequences, FiniteSets, TLC

VARIABLES
    now,            \* datetime.now(timezone.utc), in seconds
    api_cache,      \* collection COLLECTION_API_CACHE, in natural order
    threat_intel,   \* collection COLLECTION_THREAT_INTEL, in insertion order
    rep_calls,      \* network lookups made by check_ip / get_url_report
    resp,           \* what the last /api/analyze call answered
    n_analyze,      \* /api/analyze calls made so far
    got,            \* what the last direct get_cached call returned
    last_set,       \* per cache key: the data and time of the latest set_cache
    cred,           \* per source: whether its API key is configured
    cin,            \* classify_threat: the call's text and the model's answers
    cout,           \* classify_threat: the returned dict
    invocations,    \* classify_threat: invocations of the model made by its calls
    sin,            \* _derive_severity: its three arguments
    sout,           \* _derive_severity: the returned label
    pc,             \* per thread: its stack of calls of the lazy getters
    singleton,      \* the module globals _client, _db, _classifier, _topic_model:
                    \* 0 is None, k > 0 the k-th object constructed for the global
    loads,          \* per global: how many times its constructor has run
    topics,         \* collection COLLECTION_TOPICS, in natural order
    tpc,            \* per thread: where it stands in get_emerging_topics
    tlocal,         \* per thread: the locals of its get_emerging_topics run
    din,            \* detect_topics: its texts, the strategy and the strategy's answer
    dout,           \* detect_topics: the returned list and the strategy calls made
    fin,            \* _detect_fallback: its texts and what the library calls answer
    fout            \* _detect_fallback: the parameters it passed and the returned list

vars == <<now, api_cache, threat_intel, rep_calls, resp, n_analyze, got,
          last_set, cred,
          cin, cout, invocations, sin, sout, pc, singleton, loads,
          topics, tpc, tlocal, din, dout, fin, fout>>

pipelineVars == <<threat_intel, rep_calls, resp, n_analyze, cred>>
cacheVars    == <<got, last_set>>
classifyVars == <<cin, cout, invocations>>
severityVars == <<sin, sout>>
lazyVars     == <<pc, singleton, loads>>
topicVars    == <<topics, tpc, tlocal>>
detectVars   == <<din, dout>>
fallbackVars == <<fin, fout>>

----------------------------------------------------------------------------
(* Python dicts                                                            *)

EmptyDict == [k \in {} |-> 0]

DictSet(d, k, v) == [j \in DOMAIN d \cup {k} |-> IF j = k THEN v ELSE d[j]]

DictDel(d, k) == [j \in DOMAIN d \ {k} |-> d[j]]

DictGet(d, k, default) == IF k \in DOMAIN d THEN d[k] ELSE default

----------------------------------------------------------------------------
(* config.py                                                               *)

CACHE_TTL_SECONDS == 24 * 60 * 60

THREAT_CATEGORIES == <<"malware", "phishing", "botnet", "DDoS", "spam", "ransomware">>

----------------------------------------------------------------------------
(* processing/preprocessor.py                                              *)

IpLiterals  == {"8.8.8.8"}
UrlLiterals == {"http://a.test/x"}

RECURSIVE LStrip(_)
LStrip(s) == IF s # <<>> /\ Head(s) = " " THEN LStrip(Tail(s)) ELSE s

RECURSIVE RStrip(_)
RStrip(s) ==
    IF s # <<>> /\ s[Len(s)] = " " THEN RStrip(SubSeq(s, 1, Len(s) - 1)) ELSE s

\* str.strip()
Strip(s) == RStrip(LStrip(s))

\* ipaddress.ip_address accepts exactly one literal and nothing around it
validate_ip(ip) == LET s == Strip(ip) IN Len(s) = 1 /\ s[1] \in IpLiterals

\* urlparse(...).scheme in ("http", "https") and a non-empty netloc
validate_url(url) == LET s == Strip(url) IN s # <<>> /\ s[1] \in UrlLiterals

detect_input_type(value) ==
    IF validate_ip(value) THEN "ip"
    ELSE IF validate_url(value) THEN "url"
    ELSE "text"


\* "<b>" is an HTML tag and "###" a run of characters outside [a-z0-9\s.,!?'-]:
\* clean_text turns each into a blank; a URL becomes its netloc
CleanToken(tok) ==
    CASE tok = "<b>" -> " "
      [] tok = "###" -> " "
      [] tok = "%" -> " "
      [] tok = "http://a.test/x" -> "a.test"
      [] OTHER -> tok

\* re.sub(r"\s+", " ", text)
RECURSIVE Collapse(_)
Collapse(s) ==
    IF Len(s) < 2 THEN s
    ELSE IF s[1] = " " /\ s[2] = " " THEN Collapse(Tail(s))
    ELSE <<s[1]>> \o Collapse(Tail(s))

clean_text(text) == Strip(Collapse([i \in 1..Len(text) |-> CleanToken(text[i])]))

prepare_for_model(text) == clean_text(text)

----------------------------------------------------------------------------
(* storage/cache.py                                                        *)
(* A collection is the sequence of its documents in natural order;         *)
(* find_one and update_one act on the first document the filter matches.   *)
(* An Optional[dict] is a sequence: <<>> is None, <<d>> is the dict d.     *)

Min(S) == CHOOSE x \in S : \A y \in S : x <= y

Matching(coll, indicator, source) ==
    {i \in 1..Len(coll) : coll[i].indicator = indicator /\ coll[i].source = source}

get_cached_inverted(coll, indicator, source, t) ==
    LET cutoff == t - CACHE_TTL_SECONDS
        hits == {i \in Matching(coll, indicator, source) : coll[i].timestamp < cutoff}
    IN  IF hits = {} THEN <<>> ELSE <<coll[Min(hits)]>>

get_cached(coll, indicator, source, t) ==
    LET cutoff == t - CACHE_TTL_SECONDS
        hits == {i \in Matching(coll, indicator, source) : coll[i].timestamp >= cutoff}
    IN  IF hits = {} THEN <<>> ELSE <<coll[Min(hits)]>>

set_cache_merge(coll, indicator, source, data, t) ==
    LET hits == Matching(coll, indicator, source)
        old  == IF hits = {} THEN EmptyDict ELSE coll[Min(hits)].data
        doc  == [indicator |-> indicator, source |-> source,
                 data |-> [k \in DOMAIN old \cup DOMAIN data |->
                               IF k \in DOMAIN data THEN data[k] ELSE old[k]],
                 timestamp |-> t]
    IN  IF hits = {} THEN Append(coll, doc)
        ELSE [coll EXCEPT ![Min(hits)] = doc]

set_cache(coll, indicator, source, data, t) ==
    LET hits == Matching(coll, indicator, source)
        doc  == [indicator |-> indicator, source |-> source,
                 data |-> data, timestamp |-> t]
    IN  IF hits = {} THEN Append(coll, doc)
        ELSE [coll EXCEPT ![Min(hits)] = doc]


----------------------------------------------------------------------------
(* ingestion/abuseipdb_client.py, ingestion/virustotal_client.py           *)
(* http is what the network did: [ok |-> FALSE] is a RequestException,      *)
(* [ok |-> TRUE, data |-> d] a 200 answer whose payload is d.               *)

check_ip(ip, configured, http) ==
    IF ~configured THEN [error |-> "AbuseIPDB API key not configured"]
    ELSE IF ~http.ok
    THEN [error |-> "RequestException", source |-> "abuseipdb", indicator |-> ip]
    ELSE [source |-> "abuseipdb", indicator |-> ip, ip |-> ip,
          abuse_score |-> DictGet(http.data, "abuseConfidenceScore", 0),
          country |-> DictGet(http.data, "countryCode", ""),
          isp |-> DictGet(http.data, "isp", ""),
          domain |-> DictGet(http.data, "domain", ""),
          total_reports |-> DictGet(http.data, "totalReports", 0),
          last_reported |-> DictGet(http.data, "lastReportedAt", ""),
          is_whitelisted |-> DictGet(http.data, "isWhitelisted", FALSE),
          raw |-> http.data]

RECURSIVE SumValues(_)
SumValues(d) ==
    IF DOMAIN d = {} THEN 0
    ELSE LET k == CHOOSE j \in DOMAIN d : TRUE IN d[k] + SumValues(DictDel(d, k))

get_url_report(url, configured, http) ==
    IF ~configured THEN [error |-> "VirusTotal API key not configured"]
    ELSE IF ~http.ok
    THEN [error |-> "RequestException", source |-> "virustotal", indicator |-> url]
    ELSE [source |-> "virustotal", indicator |-> url,
          positives |-> DictGet(http.data, "malicious", 0),
          total |-> IF DOMAIN http.data # {} THEN SumValues(http.data) ELSE 0,
          details |-> http.data,
          raw |-> http.data]

----------------------------------------------------------------------------
(* intelligence/classifier.py                                              *)
(* The pipeline answers a call with its candidate labels ranked by          *)
(* descending score: a sequence of [label, score].  m is what the model     *)
(* does in one classify_threat call: m.load is whether _get_classifier      *)
(* returns, m.pass1 and m.pass2 are the two answers, <<>> for a raise.      *)

LabelThreat == <<"cybersecurity", " ", "threat">>
LabelBenign == <<"benign", " ", "/", " ", "not", " ", "a", " ", "threat">>

\* "threat" in label.lower()
ContainsThreat(label) == \E i \in 1..Len(label) : label[i] = "threat"

\* round(x, 4), ties to even
Round4(x) ==
    LET q == x \div 10
        r == x % 10
    IN  IF r > 5 \/ (r = 5 /\ q % 2 = 1) THEN (q + 1) * 10 ELSE q * 10

\* the for loop of lines 59-63: the first ranked label that contains "threat"
ThreatScore(security_check) ==
    LET hits == {i \in 1..Len(security_check) : ContainsThreat(security_check[i].label)}
    IN  IF hits = {} THEN 0 ELSE security_check[Min(hits)].score

ClassifierCalls_eager(text, m) ==
    IF ~m.load THEN <<"_get_classifier", "raise">>
    ELSE IF m.pass1 = <<>> THEN <<"_get_classifier", "clf", "raise">>
    ELSE IF m.pass2 = <<>> THEN <<"_get_classifier", "clf", "clf", "raise">>
    ELSE <<"_get_classifier", "clf", "clf">>

\* the calls classify_threat makes on the model, in order: the lazy getter
\* (line 52), Pass 1 (55-58) and Pass 2 (68); "raise" follows a call that raised
ClassifierCalls(text, m) ==
    IF prepare_for_model(text) = <<>> THEN <<>>
    ELSE IF ~m.load THEN <<"_get_classifier", "raise">>
    ELSE IF m.pass1 = <<>> THEN <<"_get_classifier", "clf", "raise">>
    ELSE IF m.pass2 = <<>> THEN <<"_get_classifier", "clf", "clf", "raise">>
    ELSE <<"_get_classifier", "clf", "clf">>

ClassifierError_threat(text) ==
    [is_threat |-> TRUE, category |-> "error", confidence |-> 90000,
     all_scores |-> EmptyDict, input_text |-> text, error |-> "Exception"]

\* lines 84-93
ClassifierError(text) ==
    [is_threat |-> FALSE, category |-> "error", confidence |-> 0,
     all_scores |-> EmptyDict, input_text |-> text, error |-> "Exception"]

classify_threat(text, m) ==
    LET cleaned == prepare_for_model(text) IN
    IF cleaned = <<>>
    THEN [is_threat |-> FALSE, category |-> "unknown", confidence |-> 0,
          all_scores |-> EmptyDict, input_text |-> text]
    ELSE IF ~m.load \/ m.pass1 = <<>> \/ m.pass2 = <<>> THEN ClassifierError(text)
    ELSE LET threat_score == ThreatScore(m.pass1)
             is_threat    == threat_score >= 50000
             result       == m.pass2
             all_scores   == [l \in {result[i].label : i \in 1..Len(result)} |->
                                 Round4((CHOOSE e \in {result[i] : i \in 1..Len(result)} :
                                             e.label = l).score)]
             best_label   == result[1].label
             best_score   == Round4(result[1].score)
         IN  [is_threat  |-> is_threat,
              category   |-> IF is_threat THEN best_label ELSE "benign",
              confidence |-> IF is_threat THEN best_score
                             ELSE Round4(100000 - threat_score),
              all_scores |-> all_scores,
              input_text |-> text]

----------------------------------------------------------------------------
(* app.py: _derive_severity                                                *)

IpSeverity_gt(abuse, confidence) ==
    IF abuse > 80 \/ confidence >= 85000 THEN "critical"
    ELSE IF abuse >= 50 \/ confidence >= 65000 THEN "high"
    ELSE IF abuse >= 25 THEN "medium"
    ELSE "low"

IpSeverity(abuse, confidence) ==
    IF abuse >= 80 \/ confidence >= 85000 THEN "critical"
    ELSE IF abuse >= 50 \/ confidence >= 65000 THEN "high"
    ELSE IF abuse >= 25 THEN "medium"
    ELSE "low"

UrlSeverity(positives, confidence) ==
    IF positives >= 10 \/ confidence >= 85000 THEN "critical"
    ELSE IF positives >= 5 \/ confidence >= 65000 THEN "high"
    ELSE IF positives >= 2 THEN "medium"
    ELSE "low"

TextSeverity(confidence) ==
    IF confidence >= 85000 THEN "critical"
    ELSE IF confidence >= 65000 THEN "high"
    ELSE IF confidence >= 40000 THEN "medium"
    ELSE "low"

\* lines 230-259: what _derive_severity returns once the is_threat gate is passed
ThreatSeverity(input_type, reputation, classification) ==
    LET confidence == DictGet(classification, "confidence", 0) IN
    IF input_type = "ip"
    THEN IpSeverity(DictGet(reputation, "abuse_score", 0), confidence)
    ELSE IF input_type = "url"
    THEN UrlSeverity(DictGet(reputation, "positives", 0), confidence)
    ELSE TextSeverity(confidence)

derive_severity_ungated(input_type, reputation, classification) ==
    ThreatSeverity(input_type, reputation, classification)

_derive_severity(input_type, reputation, classification) ==
    IF ~DictGet(classification, "is_threat", FALSE) THEN "low"
    ELSE ThreatSeverity(input_type, reputation, classification)

----------------------------------------------------------------------------
(* app.py: analyze                                                         *)

Truthy_never(opt) == FALSE

\* "if cached:" -- neither None nor an empty dict
Truthy(opt) == opt # <<>> /\ DOMAIN opt[1] # {}

ShouldCache_always(reputation) == TRUE

\* lines 72 and 83: if "error" not in reputation
ShouldCache(reputation) == "error" \notin DOMAIN reputation

\* the reputation capability behind a cache source
Capability(source) == IF source = "abuseipdb" THEN "check_ip" ELSE "get_url_report"

\* Lines 66-74 (source "abuseipdb") and 77-85 (source "virustotal"): the same
\* steps around the two capabilities.  fetched is what the capability returns
\* if called; readOk and writeOk are whether the store answers get_cached and
\* set_cache (find_one and update_one raise when it does not).  trace lists the
\* calls made, in the order they are made.
Lookup(value, source, fetched, cache, calls, t, readOk, writeOk) ==
    IF ~readOk
    THEN [raised |-> TRUE, reputation |-> EmptyDict, cache |-> cache, calls |-> calls,
          trace |-> <<"get_cached">>]
    ELSE LET cached == get_cached(cache, value, source, t) IN
    IF Truthy(cached)
    THEN [raised |-> FALSE,
          reputation |-> DictSet(DictGet(cached[1], "data", cached[1]), "cached", TRUE),
          cache |-> cache, calls |-> calls, trace |-> <<"get_cached">>]
    ELSE IF ~ShouldCache(fetched)
    THEN [raised |-> FALSE, reputation |-> fetched,
          cache |-> cache, calls |-> calls + 1,
          trace |-> <<"get_cached", Capability(source)>>]
    ELSE IF ~writeOk
    THEN [raised |-> TRUE, reputation |-> fetched,
          cache |-> cache, calls |-> calls + 1,
          trace |-> <<"get_cached", Capability(source), "set_cache">>]
    ELSE [raised |-> FALSE, reputation |-> DictSet(fetched, "cached", FALSE),
          cache |-> set_cache(cache, value, source, fetched, t),
          calls |-> calls + 1,
          trace |-> <<"get_cached", Capability(source), "set_cache">>]

\* lines 64-87
ReputationStep(input_type, value, configured, http, cache, calls, t, readOk, writeOk) ==
    IF input_type = "ip"
    THEN Lookup(value, "abuseipdb", check_ip(value, configured["abuseipdb"], http),
                cache, calls, t, readOk, writeOk)
    ELSE IF input_type = "url"
    THEN Lookup(value, "virustotal", get_url_report(value, configured["virustotal"], http),
                cache, calls, t, readOk, writeOk)
    ELSE [raised |-> FALSE, reputation |-> EmptyDict, cache |-> cache, calls |-> calls,
          trace |-> <<>>]

text_to_classify_raw(input_type, value, reputation) == value

\* lines 90-111
text_to_classify(input_type, value, reputation) ==
    IF input_type = "ip" /\ DOMAIN reputation # {}
    THEN IF "error" \notin DOMAIN reputation /\ "abuse_score" \in DOMAIN reputation
         THEN <<"IP", " ", "address", " ">> \o value
              \o <<" ", "has", " ", "abuse", " ", "confidence", " ", "score", " ",
                   ToString(DictGet(reputation, "abuse_score", 0)), "%", " ", "and", " ",
                   ToString(DictGet(reputation, "total_reports", 0)), " ",
                   "abuse", " ", "reports.">>
         ELSE <<"Analyze", " ", "this", " ", "IP", " ", "address", " ", "for", " ",
                "threats:", " ">> \o value
    ELSE IF input_type = "url" /\ DOMAIN reputation # {}
    THEN IF "error" \notin DOMAIN reputation /\ DictGet(reputation, "total", 0) > 0
         THEN <<"URL", " ">> \o value
              \o <<" ", "flagged", " ", "by", " ",
                   ToString(DictGet(reputation, "positives", 0)), " ", "out", " ", "of",
                   " ", ToString(DictGet(reputation, "total", 0)), " ", "security", " ",
                   "vendors.">>
         ELSE <<"Analyze", " ", "this", " ", "URL", " ", "for", " ", "threats:", " ">>
              \o value
    ELSE value

RecordOf_keep(result, t) == DictSet(result, "timestamp", t)

\* lines 121-126: the document handed to insert_one
RecordOf(result, t) ==
    LET record == DictSet(result, "timestamp", t) IN
    IF "raw" \in DOMAIN DictGet(record, "reputation", EmptyDict)
    THEN DictSet(record, "reputation", DictDel(record["reputation"], "raw"))
    ELSE record

\* insert_one(record): the store gives the document its _id
insert_one(coll, record) == Append(coll, DictSet(record, "_id", Len(coll) + 1))

ResponseBody_plain(result, insertOk) == result

\* lines 128-133: what analyze returns once the insert was tried;
\* result.pop("_id", None)
ResponseBody(result, insertOk) ==
    DictDel(IF insertOk THEN result
            ELSE DictSet(result, "storage_warning", "ServerSelectionTimeoutError"),
            "_id")

----------------------------------------------------------------------------
(* Bounds and the inputs the checks draw from                              *)

MaxAnalyze == 2     \* /api/analyze calls in one behaviour
MaxTicks   == 1     \* the clock stops at MaxTicks * (CACHE_TTL_SECONDS + 1)

Sources == {"abuseipdb", "virustotal"}

\* the clock moves by a second less than the TTL, by the TTL, or by a second more
TickSteps == {CACHE_TTL_SECONDS - 1, CACHE_TTL_SECONDS, CACHE_TTL_SECONDS + 1}

Values == { <<" ">>, <<" ", "8.8.8.8">>, <<"http://a.test/x">>, <<"alert">> }

\* request bodies: without a type, with a type, and without a value
Bodies ==
    {[value |-> v] : v \in Values}
    \cup {[type |-> "text", value |-> <<"8.8.8.8">>], EmptyDict}

\* Whether the store answers the cache read, the cache write and the record
\* insert of one call.  A call makes them in this order and a failed read or
\* write ends it, so one failure per call covers every outcome.
StoreAnswers ==
    {<<TRUE, TRUE, TRUE>>, <<FALSE, TRUE, TRUE>>, <<TRUE, FALSE, TRUE>>,
     <<TRUE, TRUE, FALSE>>}

HttpAnswers(input_type) ==
    IF input_type = "ip"
    THEN {[ok |-> FALSE],
          [ok |-> TRUE, data |-> [abuseConfidenceScore |-> 80, totalReports |-> 12]]}
    ELSE IF input_type = "url"
    THEN {[ok |-> FALSE],
          [ok |-> TRUE, data |-> [malicious |-> 10, harmless |-> 60]]}
    ELSE {[ok |-> FALSE]}

\* Pass 1 scores its two labels with a softmax: the scores add up to 1 and the
\* answer lists the higher one first (either order on a tie)
Pass1(threat_score) ==
    LET t == [label |-> LabelThreat, score |-> threat_score]
        b == [label |-> LabelBenign, score |-> 100000 - threat_score]
    IN  IF threat_score > 50000 THEN {<<t, b>>}
        ELSE IF threat_score < 50000 THEN {<<b, t>>}
        ELSE {<<t, b>>, <<b, t>>}

Pass2A ==
    <<[label |-> "malware", score |-> 61234], [label |-> "ransomware", score |-> 20001],
      [label |-> "phishing", score |-> 9005], [label |-> "botnet", score |-> 5555],
      [label |-> "DDoS", score |-> 3105], [label |-> "spam", score |-> 1100]>>

Pass2B ==
    <<[label |-> "phishing", score |-> 91116], [label |-> "spam", score |-> 4004],
      [label |-> "malware", score |-> 2000], [label |-> "botnet", score |-> 1500],
      [label |-> "ransomware", score |-> 880], [label |-> "DDoS", score |-> 500]>>

ModelFailures ==
    {[load |-> FALSE, pass1 |-> <<>>, pass2 |-> <<>>],
     [load |-> TRUE, pass1 |-> <<>>, pass2 |-> <<>>]}

\* what the model does in the analyze calls of the pipeline checks
PipelineModelAnswers ==
    {[load |-> FALSE, pass1 |-> <<>>, pass2 |-> <<>>]}
    \cup {[load |-> TRUE, pass1 |-> p1, pass2 |-> Pass2A] :
              p1 \in Pass1(97312) \cup Pass1(3004)}

----------------------------------------------------------------------------
(* The states in which a part of the program has not been used             *)

IdlePipeline ==
    /\ threat_intel = <<>>
    /\ rep_calls = 0
    /\ resp = [status |-> 0]
    /\ n_analyze = 0
    /\ cred = [s \in Sources |-> FALSE]

IdleCache == got = <<>> /\ last_set = <<>>

IdleClassify == cin = <<>> /\ cout = <<>> /\ invocations = 0

IdleSeverity == sin = <<>> /\ sout = ""

IdleLazy == pc = <<>> /\ singleton = <<>> /\ loads = <<>>

IdleTopics == topics = <<>> /\ tpc = <<>> /\ tlocal = <<>>

IdleDetect == din = <<>> /\ dout = <<>>

IdleFallback == fin = <<>> /\ fout = <<>>

----------------------------------------------------------------------------
(* Spec: the /api/analyze pipeline over the cache and the record store     *)

Tick ==
    /\ \E d \in TickSteps :
           /\ now + d <= MaxTicks * (CACHE_TTL_SECONDS + 1)
           /\ now' = now + d
    /\ UNCHANGED <<api_cache, pipelineVars, cacheVars, classifyVars, severityVars,
                   lazyVars, topicVars, detectVars,
                   fallbackVars>>

ReqValue_unstripped(body) == DictGet(body, "value", <<>>)

\* line 56: body.get("value", "").strip()
ReqValue(body) == Strip(DictGet(body, "value", <<>>))

ReqType_detect(body) == detect_input_type(DictGet(body, "value", <<>>))

\* line 60: body.get("type") or detect_input_type(value)
ReqType(body) ==
    IF DictGet(body, "type", "") # "" THEN body["type"]
    ELSE detect_input_type(ReqValue(body))

\* One /api/analyze call (lines 48-133).  body is the request's JSON; readOk,
\* writeOk and insertOk are whether the store answers the cache read, the cache
\* write and the record insert; http is the reputation API's answer and m what
\* the model does.  An exception that leaves analyze is answered with a 500.
AnalyzeCall(body, readOk, http, writeOk, m, insertOk) ==
    LET value == ReqValue(body) IN
    IF value = <<>>
    THEN /\ resp' = [status |-> 400, request |-> body,
                    body |-> [error |-> "value is required"], calls |-> <<>>]
         /\ UNCHANGED <<api_cache, threat_intel, rep_calls>>
    ELSE
    LET input_type == ReqType(body)
        rep == ReputationStep(input_type, value, cred, http, api_cache, rep_calls,
                              now, readOk, writeOk)
        reputation == rep.reputation
        text == text_to_classify(input_type, value, reputation)
        classification == classify_threat(text, m)
        made == rep.trace \o <<"classify_threat">> \o ClassifierCalls(text, m)
                    \o <<"_derive_severity", "insert_one">>
        result == [input_type |-> input_type, input_value |-> value,
                   reputation |-> reputation, classification |-> classification,
                   severity |-> _derive_severity(input_type, reputation, classification)]
    IN  /\ api_cache' = rep.cache
        /\ rep_calls' = rep.calls
        /\ IF rep.raised
           THEN /\ resp' = [status |-> 500, request |-> body, calls |-> rep.trace]
                /\ UNCHANGED threat_intel
           ELSE /\ threat_intel' = IF insertOk
                                   THEN insert_one(threat_intel, RecordOf(result, now))
                                   ELSE threat_intel
                /\ resp' = [status |-> 200, request |-> body,
                            body |-> ResponseBody(result, insertOk), calls |-> made]

Analyze ==
    /\ n_analyze < MaxAnalyze
    /\ n_analyze' = n_analyze + 1
    /\ \E body \in Bodies, st \in StoreAnswers, m \in PipelineModelAnswers :
          \E http \in HttpAnswers(ReqType(body)) :
              AnalyzeCall(body, st[1], http, st[2], m, st[3])
    /\ UNCHANGED <<now, cred, cacheVars, classifyVars, severityVars, lazyVars, topicVars, detectVars,
                   fallbackVars>>

Init ==
    /\ now = 0
    /\ api_cache = <<>>
    /\ threat_intel = <<>>
    /\ rep_calls = 0
    /\ resp = [status |-> 0]
    /\ n_analyze = 0
    /\ cred \in {[s \in Sources |-> c] : c \in BOOLEAN}
    /\ IdleCache /\ IdleClassify /\ IdleSeverity /\ IdleLazy /\ IdleTopics /\ IdleDetect /\ IdleFallback

Next == Tick \/ Analyze

Spec == Init /\ [][Next]_vars

----------------------------------------------------------------------------
(* Claims checked under Spec                                               *)

Answered == resp.status # 0

ResultFields == {"input_type", "input_value", "reputation", "classification", "severity"}

SourceOf(input_type) == IF input_type = "ip" THEN "abuseipdb" ELSE "virustotal"

\* C1: every analyze call whose value is non-empty after trimming returns the
\* composed record (input_type, input_value, reputation, classification,
\* severity) whatever the collaborators do, and only a call rejected by input
\* validation ends in an error.
C1_OnlyValidationFails ==
    Answered =>
        IF ReqValue(resp.request) = <<>>
        THEN resp.status = 400
        ELSE resp.status = 200 /\ ResultFields \subseteq DOMAIN resp.body

\* C5: no cache entry holds a reputation payload with an error key, and an
\* analyze call whose lookup returned an error-bearing result leaves the cache
\* as it was.
C5_NoErrorCached ==
    /\ [](\A i \in 1..Len(api_cache) : "error" \notin DOMAIN api_cache[i].data)
    /\ [][(/\ n_analyze' = n_analyze + 1
           /\ resp'.status = 200
           /\ "error" \in DOMAIN resp'.body["reputation"])
          => api_cache' = api_cache]_vars

\* C5 witness: an error-bearing lookup has been answered while the cache holds
\* an entry
C5_Witness ==
    /\ resp.status = 200
    /\ "error" \in DOMAIN resp.body["reputation"]
    /\ api_cache # <<>>

\* a record of an earlier call for the same indicator, younger than the TTL
RepeatedWithinTTL(body) ==
    \E i \in 1..Len(threat_intel) :
        /\ threat_intel[i]["input_type"] = ReqType(body)
        /\ threat_intel[i]["input_value"] = ReqValue(body)
        /\ now - threat_intel[i]["timestamp"] < CACHE_TTL_SECONDS

\* C6 as stated: a repeated analyze call for the same ip or url indicator within
\* the TTL does not invoke the reputation capability and persists its own new
\* record, leaving the earlier ones unchanged (stated of the calls that answer
\* with a record).
C6_Original ==
    [][(/\ n_analyze' = n_analyze + 1
        /\ resp'.status = 200
        /\ ReqType(resp'.request) \in {"ip", "url"}
        /\ RepeatedWithinTTL(resp'.request))
       => /\ rep_calls' = rep_calls
          /\ Len(threat_intel') = Len(threat_intel) + 1
          /\ SubSeq(threat_intel', 1, Len(threat_intel)) = threat_intel]_vars

\* the cache holds an entry for the indicator that is younger than the TTL
FreshEntry(value, source) ==
    \E i \in 1..Len(api_cache) :
        /\ api_cache[i].indicator = value
        /\ api_cache[i].source = source
        /\ now - api_cache[i].timestamp < CACHE_TTL_SECONDS

\* C6 amended: while the cache holds an entry for an ip or url indicator that is
\* younger than the TTL, an analyze call for that indicator does not invoke the
\* reputation capability; a call whose insert succeeds appends its own new
\* record, and no call changes the earlier records.
C6_CachedNotRefetched ==
    [][(/\ n_analyze' = n_analyze + 1
        /\ ReqValue(resp'.request) # <<>>
        /\ ReqType(resp'.request) \in {"ip", "url"}
        /\ FreshEntry(ReqValue(resp'.request), SourceOf(ReqType(resp'.request))))
       => /\ rep_calls' = rep_calls
          /\ IF resp'.status = 200 /\ "storage_warning" \notin DOMAIN resp'.body
             THEN /\ Len(threat_intel') = Len(threat_intel) + 1
                  /\ SubSeq(threat_intel', 1, Len(threat_intel)) = threat_intel
                  /\ threat_intel'[Len(threat_intel')]["input_value"]
                         = ReqValue(resp'.request)
                  /\ threat_intel'[Len(threat_intel')]["timestamp"] = now
             ELSE threat_intel' = threat_intel]_vars

\* C6 witness: two records of the same indicator, the second served from the
\* cache after a single lookup
C6_Witness ==
    /\ Len(threat_intel) = 2
    /\ threat_intel[1]["input_value"] = threat_intel[2]["input_value"]
    /\ threat_intel[1]["input_type"] = threat_intel[2]["input_type"]
    /\ threat_intel[2]["input_type"] \in {"ip", "url"}
    /\ DictGet(threat_intel[2]["reputation"], "cached", FALSE)
    /\ rep_calls = 1

\* the cache entry of the indicator, if there is one
EntryOf(cache, value, source) ==
    {i \in 1..Len(cache) : cache[i].indicator = value /\ cache[i].source = source}

\* the TTL has elapsed since the indicator's entry was fetched
ExpiredEntry(value, source) ==
    \E i \in EntryOf(api_cache, value, source) :
        now - api_cache[i].timestamp >= CACHE_TTL_SECONDS

\* C25: an analyze call served by a cache hit leaves the entry's data and
\* timestamp as they were; the first call for the indicator made once the TTL
\* has elapsed since the fetch that stored the entry invokes the reputation
\* capability again; an error-free refetch replaces the entry with one stamped
\* now, and one that returns an error leaves the expired entry stored and
\* unused (stated of the calls that are answered with a result).
C25_HitKeepsAge ==
    [][(/\ n_analyze' = n_analyze + 1
        /\ resp'.status = 200
        /\ ReqType(resp'.request) \in {"ip", "url"})
       => LET value == ReqValue(resp'.request)
              source == SourceOf(ReqType(resp'.request))
              reputation == resp'.body["reputation"]
          IN  /\ FreshEntry(value, source)
                    => /\ DictGet(reputation, "cached", FALSE)
                       /\ rep_calls' = rep_calls
                       /\ api_cache' = api_cache
              /\ ExpiredEntry(value, source)
                    => /\ rep_calls' = rep_calls + 1
                       /\ ~DictGet(reputation, "cached", FALSE)
                       /\ IF "error" \in DOMAIN reputation
                          THEN api_cache' = api_cache
                          ELSE /\ Len(api_cache') = Len(api_cache)
                               /\ \A i \in 1..Len(api_cache) :
                                      IF i \in EntryOf(api_cache, value, source)
                                      THEN /\ api_cache'[i].timestamp = now
                                           /\ api_cache'[i].indicator = value
                                           /\ api_cache'[i].source = source
                                           /\ api_cache'[i].data
                                                  = DictDel(reputation, "cached")
                                      ELSE api_cache'[i] = api_cache[i]]_vars

----------------------------------------------------------------------------
(* SpecCall: one /api/analyze call in a process that finds the cache as     *)
(* earlier lookups left it, over every request body, store outcome, API     *)
(* answer and model answer                                                  *)

MaxCalls == 1       \* /api/analyze calls in one behaviour of SpecCall

\* bodies with and without a type: blank, padded, URL, text and punctuation-only
\* values, an explicit type that contradicts the value, an empty type, a type
\* that is none of ip, url and text, no value
CallBodies ==
    {[value |-> v] : v \in Values \cup {<<"###">>}}
    \cup {[type |-> "text", value |-> <<"8.8.8.8">>],
          [type |-> "ip", value |-> <<"alert">>],
          [type |-> "", value |-> <<"http://a.test/x">>],
          [type |-> "domain", value |-> <<"alert">>],
          EmptyDict}

\* a failed request, a full answer, and an answer without the optional fields
CallHttpAnswers(input_type) ==
    IF input_type \in {"ip", "url"}
    THEN HttpAnswers(input_type) \cup {[ok |-> TRUE, data |-> EmptyDict]}
    ELSE HttpAnswers(input_type)

CallModelAnswers ==
    ModelFailures
    \cup {[load |-> TRUE, pass1 |-> p1, pass2 |-> <<>>] : p1 \in Pass1(97312)}
    \cup {[load |-> TRUE, pass1 |-> p1, pass2 |-> Pass2A] :
              p1 \in Pass1(97312) \cup Pass1(3004)}

\* the cache after error-free lookups of the IP address and of the URL at time 0
SeededCache(http_ip, http_url) ==
    set_cache(set_cache(<<>>, <<"8.8.8.8">>, "abuseipdb",
                        check_ip(<<"8.8.8.8">>, TRUE, http_ip), 0),
              <<"http://a.test/x">>, "virustotal",
              get_url_report(<<"http://a.test/x">>, TRUE, http_url), 0)

CallCaches ==
    {<<>>,
     SeededCache([ok |-> TRUE, data |-> [abuseConfidenceScore |-> 80, totalReports |-> 12]],
                 [ok |-> TRUE, data |-> [malicious |-> 10, harmless |-> 60]]),
     SeededCache([ok |-> TRUE, data |-> EmptyDict], [ok |-> TRUE, data |-> EmptyDict])}

\* the seeded entries are a second younger than the TTL, or a second older
CallTimes == {CACHE_TTL_SECONDS - 1, CACHE_TTL_SECONDS + 1}

AnalyzeOnce ==
    /\ n_analyze < MaxCalls
    /\ n_analyze' = n_analyze + 1
    /\ \E body \in CallBodies, st \in StoreAnswers, m \in CallModelAnswers :
          \E http \in CallHttpAnswers(ReqType(body)) :
              AnalyzeCall(body, st[1], http, st[2], m, st[3])
    /\ UNCHANGED <<now, cred, cacheVars, classifyVars, severityVars, lazyVars, topicVars, detectVars,
                   fallbackVars>>

InitCall ==
    /\ now \in CallTimes
    /\ api_cache \in CallCaches
    /\ threat_intel = <<>>
    /\ rep_calls = 0
    /\ resp = [status |-> 0]
    /\ n_analyze = 0
    /\ cred \in {[s \in Sources |-> c] : c \in BOOLEAN}
    /\ IdleCache /\ IdleClassify /\ IdleSeverity /\ IdleLazy /\ IdleTopics /\ IdleDetect /\ IdleFallback

NextCall == AnalyzeOnce

SpecCall == InitCall /\ [][NextCall]_vars

----------------------------------------------------------------------------
(* Claims checked under SpecCall                                           *)

\* the call was answered with a composed record
Composed == resp.status = 200

ErrorFree(reputation) == DOMAIN reputation # {} /\ "error" \notin DOMAIN reputation

\* the four sentences of the specification, as token sequences
IpScoreSentence(value, abuse, reports) ==
    <<"IP", " ", "address", " ">> \o value
    \o <<" ", "has", " ", "abuse", " ", "confidence", " ", "score", " ",
         ToString(abuse), "%", " ", "and", " ", ToString(reports), " ", "abuse", " ",
         "reports.">>

IpPlainSentence(value) ==
    <<"Analyze", " ", "this", " ", "IP", " ", "address", " ", "for", " ", "threats:", " ">>
    \o value

UrlVendorSentence(value, positives, total) ==
    <<"URL", " ">> \o value
    \o <<" ", "flagged", " ", "by", " ", ToString(positives), " ", "out", " ", "of", " ",
         ToString(total), " ", "security", " ", "vendors.">>

UrlPlainSentence(value) ==
    <<"Analyze", " ", "this", " ", "URL", " ", "for", " ", "threats:", " ">> \o value

\* the text the specification prescribes for a type, value and reputation
PrescribedText(input_type, value, reputation) ==
    CASE input_type = "ip" ->
             IF ErrorFree(reputation) /\ "abuse_score" \in DOMAIN reputation
             THEN IpScoreSentence(value, reputation["abuse_score"],
                                  DictGet(reputation, "total_reports", 0))
             ELSE IpPlainSentence(value)
      [] input_type = "url" ->
             IF ErrorFree(reputation) /\ DictGet(reputation, "total", 0) > 0
             THEN UrlVendorSentence(value, DictGet(reputation, "positives", 0),
                                    reputation["total"])
             ELSE UrlPlainSentence(value)
      [] OTHER -> value

\* C11: the text handed to the classifier is the score sentence for an ip with
\* an error-free reputation carrying an abuse score, the plain ip sentence for
\* an ip with an error reputation, the vendor sentence for a url with an
\* error-free reputation and total > 0, the plain url sentence for any other
\* url, and the value itself for text; on cache hits and on misses alike.
C11_ClassifierText ==
    Composed =>
        resp.body["classification"]["input_text"]
            = PrescribedText(resp.body["input_type"], resp.body["input_value"],
                             resp.body["reputation"])

\* C11 witness: an ip call served from the cache was classified on the score
\* sentence built from the stored abuse score and report count
C11_Witness ==
    /\ Composed
    /\ resp.body["input_type"] = "ip"
    /\ DictGet(resp.body["reputation"], "cached", FALSE)
    /\ resp.body["classification"]["input_text"]
           = IpScoreSentence(<<"8.8.8.8">>, 80, 12)

\* the request carries a type
HasType(body) == DictGet(body, "type", "") # ""

\* the detection order of the specification on a trimmed value: an IP literal,
\* else an http(s) URL with a host, else text
PrescribedType(value) ==
    IF Len(value) = 1 /\ value[1] \in IpLiterals THEN "ip"
    ELSE IF value # <<>> /\ value[1] \in UrlLiterals THEN "url"
    ELSE "text"

Capabilities == {"check_ip", "get_url_report"}

\* the positions of a call's trace at which one of the named calls is made
Positions(calls, names) == {i \in 1..Len(calls) : calls[i] \in names}

\* C13: in an ip or url call the cache is read first, the reputation capability
\* is invoked only after that read and only when it returned absent, and on a
\* hit the reputation is the stored payload with cached = true; a text call
\* touches neither the cache nor a capability and its reputation is empty.
C13_CacheFirst ==
    [][(n_analyze' = n_analyze + 1 /\ ReqValue(resp'.request) # <<>>) =>
          LET ty    == ReqType(resp'.request)
              calls == resp'.calls
              read  == get_cached(api_cache, ReqValue(resp'.request), SourceOf(ty), now)
          IN  IF ty \in {"ip", "url"}
              THEN /\ calls # <<>> /\ calls[1] = "get_cached"
                   /\ Positions(calls, {"get_cached"}) = {1}
                   /\ Positions(calls, Capabilities) \subseteq {2}
                   /\ Positions(calls, Capabilities) # {} => read = <<>>
                   /\ rep_calls' = rep_calls + Cardinality(Positions(calls, Capabilities))
                   /\ (read # <<>> /\ resp'.status = 200) =>
                          /\ resp'.body["reputation"] = DictSet(read[1].data, "cached", TRUE)
                          /\ api_cache' = api_cache
              ELSE /\ Positions(calls, Capabilities \cup {"get_cached", "set_cache"}) = {}
                   /\ rep_calls' = rep_calls
                   /\ api_cache' = api_cache
                   /\ resp'.status = 200
                   /\ resp'.body["reputation"] = EmptyDict]_vars

\* C13 witness: a url call found its entry in the cache and went on to the
\* classifier without a reputation call
C13_Witness ==
    /\ Composed
    /\ resp.body["input_type"] = "url"
    /\ resp.calls[1] = "get_cached" /\ resp.calls[2] = "classify_threat"
    /\ DictGet(resp.body["reputation"], "cached", FALSE)
    /\ rep_calls = 0

\* the analyze call of this step went through to the insert of its record
Inserting == n_analyze' = n_analyze + 1 /\ resp'.status = 200

\* C14: when the insert of the record fails, analyze still returns the computed
\* result (all five fields, the severity derived from the returned reputation
\* and classification) with an added storage_warning; when it succeeds the
\* response has no storage_warning; in neither case does the response carry the
\* identifier the store gave to the record.
C14_StorageWarning ==
    [][Inserting =>
          /\ ResultFields \subseteq DOMAIN resp'.body
          /\ "_id" \notin DOMAIN resp'.body
          /\ resp'.body["severity"]
                 = _derive_severity(resp'.body["input_type"], resp'.body["reputation"],
                                    resp'.body["classification"])
          /\ IF threat_intel' = threat_intel
             THEN /\ DOMAIN resp'.body = ResultFields \cup {"storage_warning"}
                  /\ resp'.body["storage_warning"] # ""
             ELSE /\ DOMAIN resp'.body = ResultFields
                  /\ Len(threat_intel') = Len(threat_intel) + 1
                  /\ "_id" \in DOMAIN threat_intel'[Len(threat_intel')]
                  /\ \A k \in ResultFields \ {"reputation"} :
                         threat_intel'[Len(threat_intel')][k] = resp'.body[k]]_vars

\* C14 witness: a call that looked up a reputation was answered with its result
\* and a storage_warning, and no record was stored
C14_Witness ==
    /\ Composed
    /\ "storage_warning" \in DOMAIN resp.body
    /\ "abuse_score" \in DOMAIN resp.body["reputation"]
    /\ threat_intel = <<>>

\* the request's value is missing, empty or made of blanks only
BlankValue(body) ==
    LET v == DictGet(body, "value", <<>>) IN \A i \in 1..Len(v) : v[i] = " "

\* C15: an analyze call whose value is empty or whitespace-only is rejected with
\* a 400 before any downstream call: no cache read or write, no reputation call,
\* no classifier call, no insert, and cache, records and topics are unchanged.
C15_BlankRejected ==
    [][(n_analyze' = n_analyze + 1 /\ BlankValue(resp'.request)) =>
          /\ resp'.status = 400
          /\ resp'.calls = <<>>
          /\ api_cache' = api_cache
          /\ threat_intel' = threat_intel
          /\ rep_calls' = rep_calls
          /\ topics' = topics]_vars

\* C15 witness: a whitespace-only value was rejected while the cache held entries
C15_Witness ==
    /\ resp.status = 400
    /\ "value" \in DOMAIN resp.request /\ resp.request["value"] = <<" ">>
    /\ api_cache # <<>>

\* the model raised in the call that was answered: while loading, in Pass 1 or
\* in Pass 2
ModelRaised == resp.status # 0 /\ Positions(resp.calls, {"raise"}) # {}

\* C17: a failure while loading the model or during either inference pass is
\* returned by classify_threat as is_threat false, category "error", confidence
\* 0.0, empty all_scores and an error message; analyze goes on, derives the
\* severity "low" and still persists and returns the record.
C17_ClassifierFailureContained ==
    ModelRaised =>
        /\ resp.status = 200
        /\ ResultFields \subseteq DOMAIN resp.body
        /\ resp.body["classification"]["is_threat"] = FALSE
        /\ resp.body["classification"]["category"] = "error"
        /\ resp.body["classification"]["confidence"] = 0
        /\ resp.body["classification"]["all_scores"] = EmptyDict
        /\ "error" \in DOMAIN resp.body["classification"]
        /\ resp.body["severity"] = "low"
        /\ resp.calls[Len(resp.calls)] = "insert_one"
        /\ "storage_warning" \notin DOMAIN resp.body =>
               /\ threat_intel # <<>>
               /\ threat_intel[Len(threat_intel)]["classification"]
                      = resp.body["classification"]
               /\ threat_intel[Len(threat_intel)]["severity"] = "low"

\* C17 witness: Pass 2 raised on an IP address with abuse score 80; the record
\* was stored and returned with category "error" and severity "low"
C17_Witness ==
    /\ ModelRaised
    /\ Cardinality(Positions(resp.calls, {"clf"})) = 2
    /\ DictGet(resp.body["reputation"], "abuse_score", 0) = 80
    /\ resp.body["severity"] = "low"
    /\ Len(threat_intel) = 1
    /\ threat_intel[1]["classification"]["category"] = "error"

\* the record of the call that was answered is the last one stored
Persisted == Composed /\ "storage_warning" \notin DOMAIN resp.body /\ threat_intel # <<>>

\* C18: no persisted record has a raw sub-key in its reputation, whether the
\* reputation came from a fresh lookup or from a cache hit, while the cache entry
\* keeps raw; every other reputation field of the record equals the one the
\* severity was derived from.
C18_RawStripped ==
    /\ \A i \in 1..Len(threat_intel) : "raw" \notin DOMAIN threat_intel[i]["reputation"]
    /\ \A i \in 1..Len(api_cache) : "raw" \in DOMAIN api_cache[i].data
    /\ Persisted =>
           LET record == threat_intel[Len(threat_intel)] IN
           /\ DOMAIN record["reputation"] = DOMAIN resp.body["reputation"] \ {"raw"}
           /\ \A k \in DOMAIN record["reputation"] :
                  record["reputation"][k] = resp.body["reputation"][k]
           /\ record["severity"]
                  = _derive_severity(record["input_type"], resp.body["reputation"],
                                     record["classification"])

\* C18 witness: a record whose reputation came from a cache hit was stored
\* without raw, while the cache entry and the response carry it
C18_Witness ==
    /\ Persisted
    /\ DictGet(threat_intel[Len(threat_intel)]["reputation"], "cached", FALSE)
    /\ "raw" \in DOMAIN resp.body["reputation"]
    /\ "raw" \notin DOMAIN threat_intel[Len(threat_intel)]["reputation"]
    /\ \E i \in 1..Len(api_cache) :
           /\ api_cache[i].indicator = resp.body["input_value"]
           /\ "raw" \in DOMAIN api_cache[i].data

\* C21: cache provenance is response metadata only: no persisted record has a
\* cached field in its reputation, neither after a cache hit nor after a
\* successful fresh lookup.
C21_ProvenanceNotPersisted ==
    \A i \in 1..Len(threat_intel) :
        "cached" \notin DOMAIN DictGet(threat_intel[i], "reputation", EmptyDict)

\* the types an indicator is classified as
IndicatorTypes == {"ip", "url", "text"}

\* C22: every analyze response and every persisted record has an input_type
\* among ip, url and text, whatever type field the request carries.
C22_InputTypeIsIndicatorType ==
    /\ Composed => resp.body["input_type"] \in IndicatorTypes
    /\ \A i \in 1..Len(threat_intel) : threat_intel[i]["input_type"] \in IndicatorTypes

----------------------------------------------------------------------------
(* SpecCache: get_cached and set_cache called directly, with the clock      *)

CacheKeys ==
    {<<<<"8.8.8.8">>, "abuseipdb">>, <<<<"8.8.8.8">>, "virustotal">>,
     <<<<"http://a.test/x">>, "virustotal">>}

\* the payloads a key is set to: two for an IP address, one for the URL
CacheData(key) ==
    IF key[1] = <<"8.8.8.8">>
    THEN {[abuse_score |-> 80, total_reports |-> 12,
           raw |-> [abuseConfidenceScore |-> 80]],
          [abuse_score |-> 0]}
    ELSE {[positives |-> 10, total |-> 70]}

\* set_cache(indicator, source, data) at the current time; last_set remembers
\* the call, and whether it replaced an entry that held other data
CacheSet ==
    /\ \E key \in CacheKeys : \E data \in CacheData(key) :
           /\ api_cache' = set_cache(api_cache, key[1], key[2], data, now)
           /\ last_set' = [last_set EXCEPT ![key] =
                  <<[data |-> data, at |-> now,
                     replaced |-> \E i \in Matching(api_cache, key[1], key[2]) :
                                      api_cache[i].data # data]>>]
    /\ UNCHANGED <<now, got, pipelineVars, classifyVars, severityVars, lazyVars,
                   topicVars, detectVars,
                   fallbackVars>>

\* get_cached(indicator, source) at the current time
CacheGet ==
    /\ \E key \in CacheKeys :
           got' = <<[key |-> key, doc |-> get_cached(api_cache, key[1], key[2], now)]>>
    /\ UNCHANGED <<now, api_cache, last_set, pipelineVars, classifyVars,
                   severityVars, lazyVars, topicVars, detectVars,
                   fallbackVars>>

InitCache ==
    /\ now = 0
    /\ api_cache = <<>>
    /\ got = <<>>
    /\ last_set = [key \in CacheKeys |-> <<>>]
    /\ IdlePipeline /\ IdleClassify /\ IdleSeverity /\ IdleLazy /\ IdleTopics /\ IdleDetect /\ IdleFallback

NextCache == Tick \/ CacheSet \/ CacheGet

SpecCache == InitCache /\ [][NextCache]_vars

\* C3: get returns the entry only if now - entry.timestamp is strictly less than
\* the TTL; an entry whose age has reached the TTL, like a key never set, yields
\* absent.
C3_StrictlyYoungerThanTTL ==
    [][\A i \in 1..Len(got') :
          (got' # got /\ got'[i].doc # <<>>)
              => now - got'[i].doc[1].timestamp < CACHE_TTL_SECONDS]_vars

\* what get returns now for a key
GetNow(key) == get_cached(api_cache, key[1], key[2], now)

\* C4: a get made within the TTL of the most recent set for its key returns
\* exactly the data of that set, there is at most one entry per (indicator,
\* source), and a step that sets no entry for a key does not change what get
\* returns for it.
C4_LastWriteWins ==
    /\ [](\A key \in CacheKeys :
            /\ Cardinality(Matching(api_cache, key[1], key[2])) <= 1
            /\ (last_set[key] # <<>> /\ now - last_set[key][1].at < CACHE_TTL_SECONDS)
                   => /\ GetNow(key) # <<>>
                      /\ GetNow(key)[1].data = last_set[key][1].data
                      /\ GetNow(key)[1].timestamp = last_set[key][1].at)
    /\ [][\A key \in CacheKeys :
            (last_set'[key] = last_set[key] /\ now' = now)
                => get_cached(api_cache', key[1], key[2], now) = GetNow(key)]_vars

\* C4 witness: a get, made within the TTL of a set that replaced other data for
\* its key and while another key is cached too, has returned that set's data
C4_Witness ==
    /\ got # <<>>
    /\ Len(api_cache) >= 2
    /\ last_set[got[1].key] # <<>>
    /\ last_set[got[1].key][1].replaced
    /\ now - last_set[got[1].key][1].at < CACHE_TTL_SECONDS
    /\ got[1].doc # <<>>
    /\ got[1].doc[1].data = last_set[got[1].key][1].data
    /\ got[1].doc[1].timestamp = last_set[got[1].key][1].at

----------------------------------------------------------------------------
(* SpecClassify: classify_threat on a text, over what the model may answer  *)

ClassifyTexts ==
    {<<"alert">>, <<"ransomware", " ", "attack">>, <<"<b>">>, <<" ", "###", " ">>}

\* the score Pass 1 may give to "cybersecurity threat"
Pass1ThreatScores == {0, 3004, 49999, 50000, 50001, 97312, 100000}

ClassifyModelAnswers ==
    ModelFailures
    \cup {[load |-> TRUE, pass1 |-> p1, pass2 |-> <<>>] : p1 \in Pass1(97312)}
    \cup {[load |-> TRUE, pass1 |-> p1, pass2 |-> p2] :
              p1 \in UNION {Pass1(x) : x \in Pass1ThreatScores},
              p2 \in {Pass2A, Pass2B}}

\* how many of the calls are invocations of the model
RECURSIVE Invocations(_)
Invocations(calls) ==
    IF calls = <<>> THEN 0
    ELSE (IF Head(calls) = "clf" THEN 1 ELSE 0) + Invocations(Tail(calls))

\* One classify_threat call.  _get_classifier constructs the pipeline only while
\* _classifier is None (classifier.py 14-22): with the singleton set, the getter
\* returns it whatever a load would have done.
Classify ==
    /\ cin # <<>> /\ cout = <<>>
    /\ LET m     == IF singleton["_classifier"] # 0
                    THEN [cin[1].m EXCEPT !.load = TRUE] ELSE cin[1].m
           calls == ClassifierCalls(cin[1].text, m)
           built == calls # <<>> /\ singleton["_classifier"] = 0 /\ m.load
       IN  /\ cout' = <<classify_threat(cin[1].text, m)>>
           /\ invocations' = invocations + Invocations(calls)
           /\ loads' = IF built THEN [loads EXCEPT !["_classifier"] = @ + 1] ELSE loads
           /\ singleton' = IF built
                           THEN [singleton EXCEPT !["_classifier"] = loads'["_classifier"]]
                           ELSE singleton
    /\ UNCHANGED <<now, api_cache, cin, pc, pipelineVars, cacheVars, severityVars,
                   topicVars, detectVars,
                   fallbackVars>>

InitClassify ==
    /\ cin \in {<<[text |-> x, m |-> m]>> : x \in ClassifyTexts, m \in ClassifyModelAnswers}
    /\ cout = <<>>
    /\ invocations = 0
    /\ pc = <<>>
    /\ \E built \in {0, 1} :
           /\ singleton = [g \in {"_classifier"} |-> built]
           /\ loads = [g \in {"_classifier"} |-> built]
    /\ now = 0 /\ api_cache = <<>>
    /\ IdlePipeline /\ IdleCache /\ IdleSeverity /\ IdleTopics /\ IdleDetect /\ IdleFallback

NextClassify == Classify

SpecClassify == InitClassify /\ [][NextClassify]_vars

\* the score a ranked answer gives to a label
ScoreOf(ranked, label) ==
    (CHOOSE e \in {ranked[i] : i \in 1..Len(ranked)} : e.label = label).score

\* both passes answered for a text that does not clean to the empty string
ModelAnswered ==
    /\ cout # <<>>
    /\ prepare_for_model(cin[1].text) # <<>>
    /\ cin[1].m.load /\ cin[1].m.pass1 # <<>> /\ cin[1].m.pass2 # <<>>

\* every token of the text is a blank, an HTML tag or made of characters that
\* clean_text does not keep
CleansToNothing(text) == \A i \in 1..Len(text) : text[i] \in {" ", "<b>", "###", "%"}

\* C16: when the text cleans to the empty string, classify_threat returns
\* is_threat false, category "unknown", confidence 0.0 and empty all_scores
\* without loading or invoking the model: the classifier singleton stays as it
\* was and the model invocation count does not change.
C16_EmptyShortCircuit ==
    [][(cout' # cout /\ CleansToNothing(cin[1].text)) =>
          /\ cout'[1].is_threat = FALSE
          /\ cout'[1].category = "unknown"
          /\ cout'[1].confidence = 0
          /\ cout'[1].all_scores = EmptyDict
          /\ "error" \notin DOMAIN cout'[1]
          /\ singleton' = singleton
          /\ loads' = loads
          /\ invocations' = invocations]_vars

\* C16 witness: a text of blanks and punctuation was answered "unknown" while
\* the classifier was still unset and the model would have answered
C16_Witness ==
    /\ cout # <<>>
    /\ cin[1].text = <<" ", "###", " ">>
    /\ cin[1].m.load /\ cin[1].m.pass1 # <<>>
    /\ cout[1].category = "unknown"
    /\ singleton["_classifier"] = 0
    /\ invocations = 0

\* C2: for every ranked two-label answer to Pass 1, threat_score is the score
\* given to "cybersecurity threat": is_threat is true exactly when that score is
\* >= 0.50, and below 0.50 the text is returned with is_threat false, category
\* "benign" and confidence round(1 - score, 4).
C2_ThreatScoreIsThreatLabel ==
    ModelAnswered =>
        LET score == ScoreOf(cin[1].m.pass1, LabelThreat) IN
        /\ cout[1].is_threat = (score >= 50000)
        /\ score < 50000 => /\ cout[1].category = "benign"
                            /\ cout[1].confidence = Round4(100000 - score)

----------------------------------------------------------------------------
(* SpecSeverity: _derive_severity on its three arguments                   *)

SeverityTypes == {"ip", "url", "text"}

SeverityReputations ==
    {EmptyDict, [error |-> "AbuseIPDB API key not configured"]}
    \cup {[abuse_score |-> a, total_reports |-> 3] :
              a \in {0, 24, 25, 30, 49, 50, 79, 80, 100}}
    \cup {[positives |-> q, total |-> 70] : q \in {0, 1, 2, 3, 4, 5, 9, 10, 11}}

SeverityConfidences ==
    {0, 10000, 39999, 40000, 45000, 64999, 65000, 70000, 84999, 85000, 90000}

SeverityClassifications ==
    {[is_threat |-> TRUE, category |-> "malware", confidence |-> c] :
         c \in SeverityConfidences}
    \cup {[is_threat |-> FALSE, category |-> "benign", confidence |-> c] :
              c \in {50010, 90000, 100000}}
    \cup {[is_threat |-> FALSE, category |-> k, confidence |-> 0] :
              k \in {"unknown", "error"}}
    \cup {[is_threat |-> TRUE, category |-> "malware"],
          [category |-> "malware", confidence |-> 90000]}

Derive ==
    /\ sin # <<>> /\ sout = ""
    /\ sout' = _derive_severity(sin[1].input_type, sin[1].reputation,
                                sin[1].classification)
    /\ UNCHANGED <<now, api_cache, sin, pipelineVars, cacheVars, classifyVars,
                   lazyVars, topicVars, detectVars,
                   fallbackVars>>

InitSeverity ==
    /\ sin \in {<<[input_type |-> ty, reputation |-> r, classification |-> c]>> :
                    ty \in SeverityTypes, r \in SeverityReputations,
                    c \in SeverityClassifications}
    /\ sout = ""
    /\ now = 0 /\ api_cache = <<>>
    /\ IdlePipeline /\ IdleCache /\ IdleClassify /\ IdleLazy /\ IdleTopics /\ IdleDetect /\ IdleFallback

NextSeverity == Derive

SpecSeverity == InitSeverity /\ [][NextSeverity]_vars

\* The severity table of the specification, one row per label in descending
\* order; a row without a score (conf) field has no threshold on it.
SeverityTable ==
    [ip   |-> <<[sev |-> "critical", field |-> "abuse_score", score |-> 80, conf |-> 85000],
                [sev |-> "high", field |-> "abuse_score", score |-> 50, conf |-> 65000],
                [sev |-> "medium", field |-> "abuse_score", score |-> 25]>>,
     url  |-> <<[sev |-> "critical", field |-> "positives", score |-> 10, conf |-> 85000],
                [sev |-> "high", field |-> "positives", score |-> 5, conf |-> 65000],
                [sev |-> "medium", field |-> "positives", score |-> 2]>>,
     text |-> <<[sev |-> "critical", conf |-> 85000],
                [sev |-> "high", conf |-> 65000],
                [sev |-> "medium", conf |-> 40000]>>]

RowMatches(row, reputation, confidence) ==
    \/ "score" \in DOMAIN row /\ DictGet(reputation, row.field, 0) >= row.score
    \/ "conf" \in DOMAIN row /\ confidence >= row.conf

\* the first row that matches, top-down; "low" when none does
RECURSIVE FirstMatch(_, _, _)
FirstMatch(rows, reputation, confidence) ==
    IF rows = <<>> THEN "low"
    ELSE IF RowMatches(Head(rows), reputation, confidence) THEN Head(rows).sev
    ELSE FirstMatch(Tail(rows), reputation, confidence)

\* the fixtures of the specification: type, reputation score, confidence, label
SeverityFixtures ==
    {<<"ip", 80, 0, "critical">>, <<"ip", 0, 70000, "high">>,
     <<"ip", 30, 0, "medium">>, <<"ip", 0, 0, "low">>,
     <<"url", 10, 0, "critical">>, <<"url", 5, 0, "high">>,
     <<"url", 3, 0, "medium">>, <<"url", 0, 0, "low">>,
     <<"text", 0, 90000, "critical">>, <<"text", 0, 70000, "high">>,
     <<"text", 0, 45000, "medium">>, <<"text", 0, 10000, "low">>}

Derived == sin # <<>> /\ sout # ""

IsThreat == DictGet(sin[1].classification, "is_threat", FALSE)

ScoreField == IF sin[1].input_type = "ip" THEN "abuse_score" ELSE "positives"

\* C9: for every threat classification _derive_severity is the table evaluated
\* top-down, first match winning, missing numeric fields read as 0; and each
\* listed fixture gets its label.
C9_SeverityLikeTable ==
    (Derived /\ IsThreat) =>
        /\ sout = FirstMatch(SeverityTable[sin[1].input_type], sin[1].reputation,
                             DictGet(sin[1].classification, "confidence", 0))
        /\ \A f \in SeverityFixtures :
               (/\ sin[1].input_type = f[1]
                /\ DictGet(sin[1].reputation, ScoreField, 0) = f[2]
                /\ DictGet(sin[1].classification, "confidence", 0) = f[3])
                   => sout = f[4]

\* C9 witness: the label was derived for an IP address whose abuse score is on
\* the critical boundary and whose classification has no confidence field
C9_Witness ==
    /\ Derived /\ IsThreat
    /\ sin[1].input_type = "ip"
    /\ DictGet(sin[1].reputation, "abuse_score", 0) = 80
    /\ "confidence" \notin DOMAIN sin[1].classification
    /\ sout = "critical"

\* C10: whenever the classification is not a threat ("benign", "unknown" and
\* "error" included) the severity is "low", for every input type and every
\* reputation payload.
C10_NotThreatIsLow == (Derived /\ ~IsThreat) => sout = "low"

\* C10 witness: "low" was derived for a benign classification of confidence 0.9
\* on an IP address with abuse score 100
C10_Witness ==
    /\ Derived /\ ~IsThreat
    /\ sin[1].input_type = "ip"
    /\ DictGet(sin[1].reputation, "abuse_score", 0) = 100
    /\ DictGet(sin[1].classification, "confidence", 0) = 90000
    /\ sout = "low"

----------------------------------------------------------------------------
(* SpecLazy: request threads making their first use of the lazy singletons  *)
(* (storage/mongo_client.py 8-25, classifier.py 9-23, topic_detector.py     *)
(* 72-77).  A frame of a thread's stack is [fn, at, obj]: the getter, the   *)
(* statement it stands before, and the object it has constructed.           *)

MaxThreads == 2     \* request threads

Threads == 1..MaxThreads

Getters == {"get_client", "get_db", "_get_classifier", "_detect_bertopic"}

GlobalOf(fn) ==
    CASE fn = "get_client" -> "_client"
      [] fn = "get_db" -> "_db"
      [] fn = "_get_classifier" -> "_classifier"
      [] fn = "_detect_bertopic" -> "_topic_model"

Globals == {GlobalOf(fn) : fn \in Getters}

Top(t) == pc[t][Len(pc[t])]

SetTop(t, frame) == [pc EXCEPT ![t] = [pc[t] EXCEPT ![Len(pc[t])] = frame]]

LazyFrame ==
    UNCHANGED <<now, api_cache, pipelineVars, cacheVars, classifyVars,
                severityVars, topicVars, detectVars,
                   fallbackVars>>

\* a request thread enters a getter
LazyCall(t) ==
    /\ LazyFrame
    /\ pc[t] = <<>>
    /\ \E fn \in Getters : pc' = [pc EXCEPT ![t] = <<[fn |-> fn, at |-> "test", obj |-> 0]>>]
    /\ UNCHANGED <<singleton, loads>>

\* "if <global> is None:"
LazyTest(t) ==
    /\ LazyFrame
    /\ pc[t] # <<>> /\ Top(t).at = "test"
    /\ pc' = SetTop(t, [Top(t) EXCEPT !.at =
                 IF singleton[GlobalOf(Top(t).fn)] = 0 THEN "construct" ELSE "return"])
    /\ UNCHANGED <<singleton, loads>>

\* the right-hand side of the assignment: get_db calls get_client first, the
\* other getters run their constructor (MongoClient, pipeline, BERTopic)
LazyConstruct(t) ==
    /\ LazyFrame
    /\ pc[t] # <<>> /\ Top(t).at = "construct"
    /\ IF Top(t).fn = "get_db"
       THEN /\ pc' = [pc EXCEPT ![t] =
                        Append([pc[t] EXCEPT ![Len(pc[t])].at = "index"],
                               [fn |-> "get_client", at |-> "test", obj |-> 0])]
            /\ UNCHANGED loads
       ELSE /\ loads' = [loads EXCEPT ![GlobalOf(Top(t).fn)] = @ + 1]
            /\ pc' = SetTop(t, [Top(t) EXCEPT !.at = "assign",
                                              !.obj = loads'[GlobalOf(Top(t).fn)]])
    /\ UNCHANGED singleton

\* get_db, back from get_client: client[MONGO_DB_NAME]
LazyIndex(t) ==
    /\ LazyFrame
    /\ pc[t] # <<>> /\ Top(t).at = "index"
    /\ loads' = [loads EXCEPT !["_db"] = @ + 1]
    /\ pc' = SetTop(t, [Top(t) EXCEPT !.at = "assign", !.obj = loads'["_db"]])
    /\ UNCHANGED singleton

\* "<global> = ..."
LazyAssign(t) ==
    /\ LazyFrame
    /\ pc[t] # <<>> /\ Top(t).at = "assign"
    /\ singleton' = [singleton EXCEPT ![GlobalOf(Top(t).fn)] = Top(t).obj]
    /\ pc' = SetTop(t, [Top(t) EXCEPT !.at = "return"])
    /\ UNCHANGED loads

\* "return <global>"
LazyReturn(t) ==
    /\ LazyFrame
    /\ pc[t] # <<>> /\ Top(t).at = "return"
    /\ pc' = [pc EXCEPT ![t] = SubSeq(pc[t], 1, Len(pc[t]) - 1)]
    /\ UNCHANGED <<singleton, loads>>

InitLazy ==
    /\ pc = [t \in Threads |-> <<>>]
    /\ singleton = [g \in Globals |-> 0]
    /\ loads = [g \in Globals |-> 0]
    /\ now = 0 /\ api_cache = <<>>
    /\ IdlePipeline /\ IdleCache /\ IdleClassify /\ IdleSeverity /\ IdleTopics /\ IdleDetect /\ IdleFallback

NextLazy ==
    \E t \in Threads :
        \/ LazyCall(t)
        \/ LazyTest(t)
        \/ LazyConstruct(t)
        \/ LazyIndex(t)
        \/ LazyAssign(t)
        \/ LazyReturn(t)

SpecLazy == InitLazy /\ [][NextLazy]_vars

\* C7: when several callers make their first use of a lazily initialised
\* singleton at the same time, its load/constructor runs at most once in every
\* interleaving.
C7_InitialisedOnce == \A g \in Globals : loads[g] <= 1

----------------------------------------------------------------------------
(* SpecTopics: request threads running get_emerging_topics                  *)
(* (intelligence/topic_detector.py 38-65), one database operation per step. *)

MaxTopicThreads == 2    \* request threads of /api/topics

DefaultDays == 7        \* get_emerging_topics(days: int = 7)
MinTexts == 5           \* "if len(texts) < 5"
StoredLimit == 20       \* .limit(20)
SecondsPerDay == 24 * 60 * 60

TopicThreads == 1..MaxTopicThreads

TopicsNow == (DefaultDays + 1) * SecondsPerDay

\* a stored record of /api/analyze, as RecordOf builds it
IntelRecord(value, is_threat, t) ==
    [input_type |-> "text", input_value |-> value, reputation |-> EmptyDict,
     classification |-> [is_threat |-> is_threat,
                         category |-> IF is_threat THEN "malware" ELSE "benign",
                         confidence |-> 90000],
     severity |-> IF is_threat THEN "critical" ELSE "low",
     timestamp |-> t]

FreshThreats(n) == [i \in 1..n |-> IntelRecord(<<"alert", ToString(i)>>, TRUE, TopicsNow)]

\* the threat_intel collections the runs start from: five recent threats;
\* four recent threats and a benign record; four recent threats, one exactly
\* at the cutoff and one a second older
IntelChoices ==
    { FreshThreats(5),
      Append(FreshThreats(4), IntelRecord(<<"hello">>, FALSE, TopicsNow)),
      FreshThreats(4)
          \o << IntelRecord(<<"edge">>, TRUE, TopicsNow - DefaultDays * SecondsPerDay),
                IntelRecord(<<"old">>, TRUE, TopicsNow - DefaultDays * SecondsPerDay - 1) >> }

Topic(id, keywords, count, doc) ==
    [topic_id |-> id, keywords |-> keywords, count |-> count, representative_doc |-> doc]

\* what _detect_bertopic / _detect_fallback can answer for one list of texts
RunA == << Topic(0, <<"ransomware", "attack">>, 3, <<"alert", "1">>),
           Topic(1, <<"phishing">>, 2, <<"alert", "2">>) >>
RunB == << Topic(0, <<"botnet">>, 5, <<"alert", "3">>) >>
RunOld == << Topic(0, <<"trojan">>, 2, <<"alert", "0">>),
             Topic(1, <<"worm">>, 4, <<"alert", "0">>) >>

\* a stored snapshot of more topics than _get_stored_topics returns: the
\* clustering model found one topic more than StoredLimit, the larger first
RunBig ==
    [i \in 1..(StoredLimit + 1) |->
        Topic(i - 1, <<"kw", ToString(i)>>, StoredLimit + 4 - i, <<"alert", "0">>)]

DetectAnswers == {RunA, RunB, <<>>}

\* [{**t, "detected_at": now} for t in topics]
Stamped(run, t) ==
    [i \in 1..Len(run) |->
        [topic_id |-> run[i].topic_id, keywords |-> run[i].keywords,
         count |-> run[i].count, representative_doc |-> run[i].representative_doc,
         detected_at |-> t]]

detect_topics_any(texts, answer) == answer

detect_topics(texts, answer) == IF Len(texts) < MinTexts THEN <<>> ELSE answer

\* the strategy detect_topics calls: lines 33-35, BERTOPIC_AVAILABLE being set
\* once, at import (lines 11-15)
DetectCalls(texts, available) ==
    IF Len(texts) < MinTexts THEN <<>>
    ELSE IF available THEN <<"_detect_bertopic">>
    ELSE <<"_detect_fallback">>

\* find({"timestamp": {"$gte": cutoff}, "classification.is_threat": True}),
\* then the input_value of every document that has a non-empty one
RECURSIVE RecentThreatTexts(_, _)
RecentThreatTexts(coll, cutoff) ==
    IF coll = <<>> THEN <<>>
    ELSE LET d == Head(coll)
             rest == RecentThreatTexts(Tail(coll), cutoff)
         IN IF d.timestamp >= cutoff /\ d.classification.is_threat /\ d.input_value # <<>>
            THEN <<d.input_value>> \o rest
            ELSE rest

\* insert doc into a list kept in descending order of count (stable)
RECURSIVE InsertByCount(_, _)
InsertByCount(sorted, doc) ==
    IF sorted = <<>> THEN <<doc>>
    ELSE IF Head(sorted).count >= doc.count
         THEN <<Head(sorted)>> \o InsertByCount(Tail(sorted), doc)
         ELSE <<doc>> \o sorted

RECURSIVE SortByCountDesc(_)
SortByCountDesc(coll) ==
    IF coll = <<>> THEN <<>>
    ELSE InsertByCount(SortByCountDesc(SubSeq(coll, 1, Len(coll) - 1)), coll[Len(coll)])

\* find({}).sort("count", -1).limit(20)
_get_stored_topics(coll) ==
    LET sorted == SortByCountDesc(coll)
    IN SubSeq(sorted, 1, IF Len(sorted) < StoredLimit THEN Len(sorted) ELSE StoredLimit)

\* ran is whether the run has called detect_topics
NoLocals == [texts |-> <<>>, topics |-> <<>>, result |-> <<>>, ran |-> FALSE]

TopicsFrame ==
    UNCHANGED <<now, api_cache, pipelineVars, cacheVars, classifyVars,
                severityVars, lazyVars, detectVars,
                   fallbackVars>>

\* db[threat_intel].find(...) and the list of texts
TopicsFind(t) ==
    /\ TopicsFrame
    /\ tpc[t] = "idle"
    /\ tlocal' = [tlocal EXCEPT ![t] =
           [NoLocals EXCEPT !.texts =
               RecentThreatTexts(threat_intel, now - DefaultDays * SecondsPerDay)]]
    /\ tpc' = [tpc EXCEPT ![t] = "found"]
    /\ UNCHANGED topics

\* "if len(texts) < 5: return _get_stored_topics()"
TopicsStored(t) ==
    /\ TopicsFrame
    /\ tpc[t] = "found" /\ Len(tlocal[t].texts) < MinTexts
    /\ tlocal' = [tlocal EXCEPT ![t].result = _get_stored_topics(topics)]
    /\ tpc' = [tpc EXCEPT ![t] = "returned"]
    /\ UNCHANGED topics

\* "topics = detect_topics(texts)" and "if topics:"
TopicsDetect(t) ==
    /\ TopicsFrame
    /\ tpc[t] = "found" /\ Len(tlocal[t].texts) >= MinTexts
    /\ \E answer \in DetectAnswers :
          LET found == detect_topics(tlocal[t].texts, answer)
          IN /\ tlocal' = [tlocal EXCEPT ![t].topics = found, ![t].result = found,
                                         ![t].ran = TRUE]
             /\ tpc' = [tpc EXCEPT ![t] = IF found # <<>> THEN "delete" ELSE "returned"]
    /\ UNCHANGED topics

\* db[topics].delete_many({})
TopicsDelete(t) ==
    /\ TopicsFrame
    /\ tpc[t] = "delete"
    /\ topics' = <<>>
    /\ tpc' = [tpc EXCEPT ![t] = "insert"]
    /\ UNCHANGED tlocal

\* db[topics].insert_many([...]); a storage failure raises out of the run
TopicsInsert(t) ==
    /\ TopicsFrame
    /\ tpc[t] = "insert"
    /\ \E ok \in BOOLEAN :
          IF ok
          THEN /\ topics' = topics \o Stamped(tlocal[t].topics, now)
               /\ tpc' = [tpc EXCEPT ![t] = "returned"]
               /\ UNCHANGED tlocal
          ELSE /\ tpc' = [tpc EXCEPT ![t] = "raised"]
               /\ tlocal' = [tlocal EXCEPT ![t].result = <<>>]
               /\ UNCHANGED topics

\* the request is answered; the thread serves the next one
TopicsDone(t) ==
    /\ TopicsFrame
    /\ tpc[t] \in {"returned", "raised"}
    /\ tpc' = [tpc EXCEPT ![t] = "idle"]
    /\ tlocal' = [tlocal EXCEPT ![t] = NoLocals]
    /\ UNCHANGED topics

InitialTopics == {<<>>, Stamped(RunOld, 0), Stamped(RunBig, 0)}

InitTopics ==
    /\ now = TopicsNow
    /\ api_cache = <<>>
    /\ threat_intel \in IntelChoices
    /\ rep_calls = 0 /\ resp = [status |-> 0] /\ n_analyze = 0
    /\ cred = [abuseipdb |-> FALSE, virustotal |-> FALSE]
    /\ topics \in InitialTopics
    /\ tpc = [t \in TopicThreads |-> "idle"]
    /\ tlocal = [t \in TopicThreads |-> NoLocals]
    /\ IdleCache /\ IdleClassify /\ IdleSeverity /\ IdleLazy /\ IdleDetect /\ IdleFallback

NextTopics ==
    \E t \in TopicThreads :
        \/ TopicsFind(t)
        \/ TopicsStored(t)
        \/ TopicsDetect(t)
        \/ TopicsDelete(t)
        \/ TopicsInsert(t)
        \/ TopicsDone(t)

SpecTopics == InitTopics /\ [][NextTopics]_vars

\* the stored collection is exactly the stamped topic list of one detection run
IsSnapshot(coll) ==
    \E run \in DetectAnswers \ {<<>>} : coll = Stamped(run, TopicsNow)

\* C8: in every reachable state, also between the steps of a run, between two
\* interleaved runs and after an insert failure, the stored topic collection is
\* the complete topic list of one single detection run or the initial contents:
\* never the empty or partial set a delete leaves behind, never a mix of two runs.
C8_AlwaysCompleteSnapshot == [][topics' # topics => IsSnapshot(topics')]_vars

\* thread t has just returned from the branch taken with fewer than 5 texts
ReturnsStored(t) == tpc[t] = "found" /\ tpc'[t] = "returned" /\ Len(tlocal[t].texts) < MinTexts

Elements(seq) == {seq[i] : i \in 1..Len(seq)}

\* C19: with fewer than 5 qualifying texts get_emerging_topics returns the
\* stored topic snapshot, whole, without running detection and without modifying
\* the stored topics.
C19_StoredSnapshotReturned ==
    [][\A t \in TopicThreads :
          ReturnsStored(t) =>
              /\ Len(tlocal'[t].result) = Len(topics)
              /\ Elements(tlocal'[t].result) = Elements(topics)
              /\ ~tlocal'[t].ran
              /\ topics' = topics]_vars

\* What the run with fewer than 5 texts does return: the stored topics in
\* descending order of count, at most StoredLimit of them and those with the
\* highest counts, without running detection and without modifying the stored
\* topics; and the stored topics are modified only by a run that had at least 5
\* texts and produced at least one topic.
StoredTopicsTruncated ==
    /\ [][\A t \in TopicThreads :
            ReturnsStored(t) =>
                LET result == tlocal'[t].result IN
                /\ Len(result) = IF Len(topics) < StoredLimit THEN Len(topics)
                                 ELSE StoredLimit
                /\ Elements(result) \subseteq Elements(topics)
                /\ \A i \in 1..(Len(result) - 1) : result[i].count >= result[i + 1].count
                /\ \A x \in Elements(topics) \ Elements(result) :
                       \A y \in Elements(result) : x.count <= y.count
                /\ ~tlocal'[t].ran
                /\ topics' = topics]_vars
    /\ [][topics' # topics =>
            \E t \in TopicThreads :
                /\ tpc[t] \in {"delete", "insert"}
                /\ Len(tlocal[t].texts) >= MinTexts
                /\ tlocal[t].ran /\ tlocal[t].topics # <<>>]_vars

\* a run that found four qualifying texts has returned the two stored topics,
\* the larger first, and left them stored as they were
StoredTopicsReturnedOnce ==
    \E t \in TopicThreads :
        /\ tpc[t] = "returned"
        /\ Len(tlocal[t].texts) = 4
        /\ ~tlocal[t].ran
        /\ topics = Stamped(RunOld, 0)
        /\ tlocal[t].result = <<topics[2], topics[1]>>

----------------------------------------------------------------------------
(* SpecDetect: detect_topics on a list of texts, under either strategy      *)

MaxTexts == 6       \* the longest list of texts handed to detect_topics

\* what one text may be: a word, a phrase, markup only, the empty string
DetectContents == {<<"alert">>, <<"ransomware", " ", "attack">>, <<"<b>">>, <<>>}

\* lists of 0..MaxTexts texts: the same text repeated, and distinct texts
DetectTexts ==
    {[i \in 1..n |-> x] : n \in 0..MaxTexts, x \in DetectContents}
    \cup {[i \in 1..n |-> <<"alert", ToString(i)>>] : n \in 0..MaxTexts}

Detect ==
    /\ din # <<>> /\ dout = <<>>
    /\ dout' = <<[topics |-> detect_topics(din[1].texts, din[1].answer),
                  calls |-> DetectCalls(din[1].texts, din[1].available)]>>
    /\ UNCHANGED <<now, api_cache, din, pipelineVars, cacheVars, classifyVars,
                   severityVars, lazyVars, topicVars, fallbackVars>>

InitDetect ==
    /\ din \in {<<[texts |-> x, available |-> a, answer |-> r]>> :
                   x \in DetectTexts, a \in BOOLEAN, r \in DetectAnswers}
    /\ dout = <<>>
    /\ now = 0 /\ api_cache = <<>>
    /\ IdlePipeline /\ IdleCache /\ IdleClassify /\ IdleSeverity /\ IdleLazy /\ IdleTopics
    /\ IdleFallback

NextDetect == Detect

SpecDetect == InitDetect /\ [][NextDetect]_vars

\* C20: detect_topics called with fewer than 5 texts returns the empty list,
\* for every content of those texts and under either strategy, without invoking
\* the clustering model or the TF-IDF fallback.
C20_FewTextsNoTopics ==
    (dout # <<>> /\ Len(din[1].texts) < 5) =>
        /\ dout[1].topics = <<>>
        /\ dout[1].calls = <<>>

\* C20 witness: four distinct texts, on which the clustering model would have
\* found two topics, were answered with the empty list
C20_Witness ==
    /\ dout # <<>>
    /\ Len(din[1].texts) = 4
    /\ din[1].texts[1] # din[1].texts[2]
    /\ din[1].available
    /\ din[1].answer = RunA
    /\ dout[1].topics = <<>>

----------------------------------------------------------------------------
(* SpecFallback: _detect_fallback on lists of at least five texts, over     *)
(* what the vectorizer finds in them and every labelling k-means may return *)

MaxFallbackTexts == 11  \* every labelling is tried on lists up to this length
LabelPeriod == 3        \* longer lists: labellings that repeat with this period

\* A text is known by the document it comes from and its length in
\* characters; text[:k] is the same document cut to at most k characters.
Slice(text, k) == [doc |-> text.doc, chars |-> IF text.chars < k THEN text.chars ELSE k]

\* line 110: n_clusters = min(max(2, len(texts) // 5), 8)
n_clusters(texts) ==
    LET m == IF 2 > Len(texts) \div 5 THEN 2 ELSE Len(texts) \div 5
    IN  IF m < 8 THEN m ELSE 8

\* line 116: min_df=2 if len(texts) > 10 else 1
min_df(texts) == IF Len(texts) > 10 THEN 2 ELSE 1

\* lines 112-117: the parameters TfidfVectorizer is constructed with (max_df in
\* hundredths)
VectorizerParams(texts) ==
    [max_features |-> 1000, stop_words |-> "english", max_df |-> 90,
     min_df |-> min_df(texts)]

\* lines 118-121 and 126: fit_transform and get_feature_names_out.  corpus is
\* the terms of the texts that are not stop words, in alphabetical order, each
\* with the number of texts it occurs in.  A term is a feature when it occurs
\* in at least min_df texts and in at most the fraction max_df of them; with no
\* feature left fit_transform raises ValueError.  No corpus here has more than
\* max_features terms.
fit_transform(corpus, texts, params) ==
    LET Kept(term) == /\ term.df >= params.min_df
                      /\ term.df * 100 <= params.max_df * Len(texts)
        kept == SelectSeq(corpus, Kept)
    IN  [raised |-> kept = <<>>,
         feature_names |-> [i \in 1..Len(kept) |-> kept[i].term]]

\* line 131: member_indices = [i for i, l in enumerate(labels) if l == cid],
\* as positions 1..n
member_indices(labels, cid) ==
    LET Member(i) == labels[i] = cid
    IN  SelectSeq([i \in 1..Len(labels) |-> i], Member)

\* lines 136-137: order = cluster_centers_[cid].argsort()[::-1] and the names of
\* order[:8].  ranking says which way the centroid of cluster cid ranks the
\* features.
Keywords(feature_names, ranking, cid) ==
    LET F == Len(feature_names)
        order == IF (cid + ranking) % 2 = 0 THEN [i \in 1..F |-> i]
                 ELSE [i \in 1..F |-> F + 1 - i]
    IN  [j \in 1..(IF F < 8 THEN F ELSE 8) |-> feature_names[order[j]]]

\* lines 130-143: the loop over range(n_clusters), from cluster cid on
RECURSIVE ClusterTopics(_, _, _, _, _, _)
ClusterTopics(cid, k, texts, labels, feature_names, ranking) ==
    IF cid >= k THEN <<>>
    ELSE LET members == member_indices(labels, cid)
             rest == ClusterTopics(cid + 1, k, texts, labels, feature_names, ranking)
         IN  IF members = <<>> THEN rest
             ELSE <<Topic(cid, Keywords(feature_names, ranking, cid), Len(members),
                          Slice(texts[members[1]], 300))>> \o rest

SortResults_unsorted(results) == results

\* line 145: results.sort(key=lambda t: t["count"], reverse=True); the sort is
\* stable
SortResults(results) == SortByCountDesc(results)

\* lines 104-146.  labels is what km.fit_predict returns and ranking how the
\* centroids rank the features.
_detect_fallback(texts, corpus, labels, ranking) ==
    LET params == VectorizerParams(texts)
        fitted == fit_transform(corpus, texts, params)
        k == n_clusters(texts)
    IN  [vectorizer |-> params,
         n_clusters |-> k,
         value_error |-> fitted.raised,
         results |-> IF fitted.raised THEN <<>>
                     ELSE SortResults(ClusterTopics(0, k, texts, labels,
                                                    fitted.feature_names, ranking))]

\* texts of 12, 300, 301 and 900 characters, each from its own document
FallbackTexts(n) ==
    [i \in 1..n |-> [doc |-> i, chars |-> <<12, 300, 301, 900>>[(i % 4) + 1]]]

\* lists of 5..MaxFallbackTexts texts, one that makes three clusters and one
\* beyond the eight-cluster cap
FallbackLengths == (5..MaxFallbackTexts) \cup {15, 45}

\* ten terms of which some occur in one text only and one in five texts; three
\* terms that occur in one text each; no term at all
FallbackCorpora ==
    { << [term |-> "attack", df |-> 3], [term |-> "botnet", df |-> 1],
         [term |-> "breach", df |-> 2], [term |-> "exploit", df |-> 2],
         [term |-> "malware", df |-> 5], [term |-> "phishing", df |-> 1],
         [term |-> "ransomware", df |-> 4], [term |-> "spam", df |-> 2],
         [term |-> "trojan", df |-> 3], [term |-> "worm", df |-> 2] >>,
      << [term |-> "botnet", df |-> 1], [term |-> "phishing", df |-> 1],
         [term |-> "worm", df |-> 1] >>,
      <<>> }

\* what km.fit_predict may return for n texts: a cluster 0..k-1 for each
FallbackLabels(n) ==
    LET k == n_clusters(FallbackTexts(n)) IN
    IF n <= MaxFallbackTexts THEN [1..n -> 0..(k - 1)]
    ELSE {[i \in 1..n |-> f[(i % LabelPeriod) + 1]] : f \in [1..LabelPeriod -> 0..(k - 1)]}

Fallback ==
    /\ fin # <<>> /\ fout = <<>>
    /\ fout' = <<_detect_fallback(fin[1].texts, fin[1].corpus, fin[1].labels,
                                  fin[1].ranking)>>
    /\ UNCHANGED <<now, api_cache, fin, pipelineVars, cacheVars, classifyVars,
                   severityVars, lazyVars, topicVars, detectVars>>

InitFallback ==
    /\ \E n \in FallbackLengths :
          fin \in {<<[texts |-> FallbackTexts(n), corpus |-> c, labels |-> l,
                      ranking |-> r]>> :
                      c \in FallbackCorpora, l \in FallbackLabels(n), r \in {0, 1}}
    /\ fout = <<>>
    /\ now = 0 /\ api_cache = <<>>
    /\ IdlePipeline /\ IdleCache /\ IdleClassify /\ IdleSeverity /\ IdleLazy /\ IdleTopics
    /\ IdleDetect

NextFallback == Fallback

SpecFallback == InitFallback /\ [][NextFallback]_vars

\* C23: the vectorizer is given min_df 2 whenever there are at least 10 texts
\* (10 included) and min_df 1 when there are fewer.
C23_MinDfFromTenTexts ==
    fout # <<>> =>
        fout[1].vectorizer.min_df = IF Len(fin[1].texts) >= 10 THEN 2 ELSE 1

\* the fallback clustered the texts and built its list from the labelling
Clustered == fout # <<>> /\ ~fout[1].value_error

\* k = clamp(n div 5, 2, 8)
ClampedClusters(n) ==
    IF n \div 5 < 2 THEN 2 ELSE IF n \div 5 > 8 THEN 8 ELSE n \div 5

\* the texts the labelling assigns to cluster cid, and the first of them
MembersOf(cid) == {i \in 1..Len(fin[1].labels) : fin[1].labels[i] = cid}

FirstOf(S) == CHOOSE i \in S : \A j \in S : i <= j

RECURSIVE SumOfCounts(_)
SumOfCounts(results) ==
    IF results = <<>> THEN 0 ELSE Head(results).count + SumOfCounts(Tail(results))

\* C24: for every assignment of n >= 5 texts to k = clamp(n div 5, 2, 8)
\* clusters the fallback returns one topic per non-empty cluster and none for
\* an empty one, each with count >= 1, at most 8 keywords and, as its
\* representative_doc, the first 300 characters of the cluster's first member in
\* input order; the counts add up to n and the list is in non-increasing order
\* of count.
C24_FallbackTopics ==
    Clustered =>
        LET texts == fin[1].texts
            results == fout[1].results
            k == ClampedClusters(Len(texts))
            TopicsOf(cid) == {j \in 1..Len(results) : results[j].topic_id = cid}
        IN  /\ fout[1].n_clusters = k
            /\ \A j \in 1..Len(results) : results[j].topic_id \in 0..(k - 1)
            /\ \A cid \in 0..(k - 1) :
                   IF MembersOf(cid) = {} THEN TopicsOf(cid) = {}
                   ELSE /\ Cardinality(TopicsOf(cid)) = 1
                        /\ \A j \in TopicsOf(cid) :
                               /\ results[j].count = Cardinality(MembersOf(cid))
                               /\ results[j].count >= 1
                               /\ Len(results[j].keywords) <= 8
                               /\ LET first == texts[FirstOf(MembersOf(cid))]
                                  IN  results[j].representative_doc
                                          = [doc |-> first.doc,
                                             chars |-> IF first.chars > 300 THEN 300
                                                       ELSE first.chars]
            /\ SumOfCounts(results) = Len(texts)
            /\ \A j \in 1..(Len(results) - 1) : results[j].count >= results[j + 1].count

\* C24 witness: ten texts of which cluster 1 got more than cluster 0, so the
\* list starts with topic 1, whose eight keywords were picked among ten features
\* and whose representative text was cut to 300 characters
C24_Witness ==
    /\ Clustered
    /\ Len(fin[1].texts) = 10
    /\ Len(fin[1].corpus) = 10
    /\ Len(fout[1].results) = 2
    /\ fout[1].results[1].topic_id = 1
    /\ fout[1].results[1].count > fout[1].results[2].count
    /\ Len(fout[1].results[1].keywords) = 8
    /\ fin[1].texts[FirstOf(MembersOf(1))].chars > 300
    /\ fout[1].results[1].representative_doc.chars = 300

\* C24 second case: forty-five texts are clustered into eight clusters of which
\* some stay empty
C24_EmptyClustersSkipped ==
    /\ Clustered
    /\ Len(fin[1].texts) = 45
    /\ fout[1].n_clusters = 8
    /\ Len(fout[1].results) = 3

=============================================================================
